---- MODULE Spec2Model ----
(***************************************************************************)
(* demolition: one run of src/main.rs.  The run creates the mount point,   *)
(* mounts the device, moves the root volume into the backups directory     *)
(* under a name rendered from its creation time, lists and sorts the       *)
(* backups, asks `btrfs subvolume delete` to remove the oldest ones the    *)
(* retention policy does not keep, and unmounts.                           *)
(*                                                                         *)
(* Time is counted in whole units from the UNIX epoch (a day in the        *)
(* worked example); a negative time lies before the epoch.                 *)
(***************************************************************************)
EXTENDS Integers, Sequences, FiniteSets

\* ------------------------------------------------------------- bounds
\* Number of entries the backups directory holds where the evaluation starts.
MaxBackups == 2
\* Number of entries the backups directory holds before a whole run.
MaxRunBackups == 1
\* Latest last-modified time of an entry where the evaluation starts.
MaxTime == 2
\* Latest last-modified time of an entry or of the root volume before a
\* whole run.
MaxRunTime == 1
\* Largest DEMOLITION_KEEP_COUNT.
MaxKeepCount == 1
\* Largest DEMOLITION_KEEP_DURATION.
MaxKeepDuration == 1
\* Number of entries the root volume itself holds.
MaxChildren == 1

\* Entries of the backups directory in the worked example of the retention rule.
MaxExampleBackups == 4
\* Latest last-modified time in the five-entry scenario.
MaxFiveTime == 5

\* Last-modified times: -1 is a time before the epoch.
Times == -1..MaxTime
\* Last-modified times before a whole run, at or after the epoch.
RunTimes == 0..MaxRunTime
\* Creation times of the root volume.
CreatedTimes == 0..1
\* DEMOLITION_BACKUP_FORMAT, any string (main.rs:76), by what the rendering
\* of a creation time under it is:
\*   "name"    one path component, an entry of the backups directory;
\*             `span` is the number of time units one rendered name
\*             spans: 1 renders every unit ("%Y%m%d"), 2 is a coarser
\*             format ("%Y%m");
\*   "nested"  a path of two components ("%Y/x"), a child of the entry of
\*             the backups directory that the first component, rendered
\*             from the creation time, names;
\*   "parent"  a path that is neither the backups directory, nor an entry
\*             of it, nor a child of one: it leaves the directory
\*             ("../%Y") or lies deeper in it ("%Y/a/x");
\*   "self"    the root volume's own path, however it is written
\*             ("../root");
\*   "empty"   the empty string, which joins to the backups directory itself;
\*   "invalid" no string at all: to_string() panics ("%Q").
Formats ==
    {[kind |-> "name", span |-> s] : s \in {1, 2}}
        \cup {[kind |-> k, span |-> 1] :
                 k \in {"nested", "parent", "self", "empty", "invalid"}}

\* ------------------------------------------------------------- constants
EXIT_ENV == 1
EXIT_ERR == 2
\* The exit status of a Rust process that panicked.
EXIT_PANIC == 101
\* exit_status while the process runs.
Running == -1
\* The empty string as the name rendered under the empty format.
EmptyName == -1
\* The root volume's own path as the path rendered under a "self" format.
RootName == -2
\* The entry of root_place when the root volume path lies in no entry of
\* the backups directory.
Outside == -3

VARIABLES
    \* configuration, read once at startup
    keep_count, keep_during, backup_format, dry_run,
    root_place,         \* where the root volume path lies with respect to
                        \* the backups directory
    \* the machine
    mount_dir_exists,   \* the mount point directory exists
    mounts,             \* number of mounts stacked on the mount point
    root_volume,        \* {} or {[created |-> t, modified |-> m]}
    backups_dir,        \* name -> last-modified time of each entry
    \* the process
    pc, exit_status,
    backups,            \* the sorted Vec<(age, entry)>
    remove_count,
    remove,             \* what is left of the `remove` iterator
    status,             \* result of the last cmd.status()
    \* observation
    log,                \* levels of the log calls, in order
    events,             \* system calls and subprocesses, in order
    removing,           \* entries the pruning loop has taken up, in order
    start               \* the machine as it was at startup

vars == <<keep_count, keep_during, backup_format, dry_run, root_place, mount_dir_exists,
          mounts, root_volume, backups_dir, pc, exit_status,
          backups, remove_count, remove, status, log, events, removing, start>>

config == <<keep_count, keep_during, backup_format, dry_run, root_place>>

\* Something is mounted on the mount point.
mounted == mounts > 0

\* ------------------------------------------------------------- helpers
Min(a, b) == IF a < b THEN a ELSE b

\* A subtraction that does not saturate at 0 (usize::abs_diff).
AbsDiff(a, b) == IF a > b THEN a - b ELSE b - a
\* usize::saturating_sub
SaturatingSub(a, b) == IF a > b THEN a - b ELSE 0

\* The time elapsed between the last-modified time and the start of the run.
AgeSinceNow(modified) == IF start.now - modified < 0 THEN 0 ELSE start.now - modified

\* modified.duration_since(UNIX_EPOCH).unwrap_or_default()
Age(modified) == IF modified < 0 THEN 0 ELSE modified

\* A rendering that ignores the configured format.
FormatIgnored(fmt, created) == created
\* created.format(&backup_format).to_string(), for a format that renders: the
\* component of the rendered path that comes from the creation time is the
\* creation time at the resolution of the format; the empty format renders
\* nothing and a "self" format the path of the root volume.
FormatName(fmt, created) ==
    IF fmt.kind = "empty" THEN EmptyName
    ELSE IF fmt.kind = "self" THEN RootName
    ELSE created \div fmt.span

\* The comparison with >= in place of >.
AtOrAboveThreshold(age, threshold) == age >= threshold
\* |(age, _)| *age > keep_during
AboveThreshold(age, threshold) == age > threshold

\* The iterator without its take(remove_count).
TakeAll(s, n) == s
\* Iterator::take
Take(s, n) == SubSeq(s, 1, Min(n, Len(s)))

\* Iterator::take_while(|(age, _)| *age > keep_during)
RECURSIVE TakeWhile(_, _)
TakeWhile(s, threshold) ==
    IF s = <<>> THEN <<>>
    ELSE IF AboveThreshold(Head(s)[1], threshold)
         THEN <<Head(s)>> \o TakeWhile(Tail(s), threshold)
         ELSE <<>>

Smallest(S) == {e \in S : \A f \in S : e[1] <= f[1]}

\* Every order read_dir may yield the entries in: the Vec left unsorted.
RECURSIVE AnyOrder(_)
AnyOrder(S) ==
    IF S = {} THEN {<<>>}
    ELSE UNION {{<<e>> \o t : t \in AnyOrder(S \ {e})} : e \in S}

\* backups.sort_unstable_by_key(|(age, _)| *age): every order of the pushed
\* pairs that ascends by age; equal ages may come out in any order.
RECURSIVE SortUnstableByKey(_)
SortUnstableByKey(S) ==
    IF S = {} THEN {<<>>}
    ELSE UNION {{<<e>> \o t : t \in SortUnstableByKey(S \ {e})} : e \in Smallest(S)}

\* The (age, entry) pairs pushed for the entries the read_dir iterator yields.
Pushed(dir, yielded) ==
    {<<Age(dir[n]), n>> : n \in yielded}

Range(s) == {s[i] : i \in 1..Len(s)}
NamesOf(s) == [i \in 1..Len(s) |-> s[i][2]]

\* bail!: an error line and exit(EXIT_ERR).
Bail ==
    /\ log' = Append(log, "error")
    /\ exit_status' = EXIT_ERR
    /\ pc' = "done"

\* The for loop over `remove` ends when the iterator is exhausted.
LoopOrUnmount(rest) == IF rest = <<>> THEN "unmount" ELSE "prune"

\* ------------------------------------------------------------- initial states
\* Directories of n entries, named 1..n.
Dirs(maxLen, times) == UNION {[1..n -> times] : n \in 0..maxLen}
Roots(times) == {{}} \cup {{[created |-> c, modified |-> m]} : c \in CreatedTimes, m \in times}

\* Wall-clock moments at which a run starts: at the latest last-modified
\* time and one unit after it.
Nows == {MaxTime, MaxTime + 1}

\* Wall-clock moments at which a rename happens: the clock is not bound to
\* the last-modified times on the device.
Moments == 0..(MaxFiveTime + 1)

\* The entries of directory dir that can be the root volume itself.
RootEntries(root, dir) ==
    {e \in DOMAIN dir : \E r \in root : dir[e] = r.modified}

\* DEMOLITION_ROOT_VOLUME and DEMOLITION_BACKUP_DIR are any two paths
\* (main.rs:74-75).  Where the root volume path lies:
\*   "outside"  in no entry of the backups directory and not above it;
\*   "entry"    it is the path of entry `entry` of the backups directory;
\*   "child"    it is a child of that entry ("root-backups/e1/sub");
\*   "below"    it lies deeper in that entry ("root-backups/e1/a/sub");
\*   "dir"      it is the backups directory;
\*   "above"    the backups directory lies in it.
\* A path at which there is no volume behaves alike wherever it lies.
Places(root, dir) ==
    IF root = {} THEN {[place |-> "outside", entry |-> Outside]}
    ELSE {[place |-> p, entry |-> Outside] : p \in {"outside", "dir", "above"}}
            \cup {[place |-> "entry", entry |-> e] : e \in RootEntries(root, dir)}
            \cup {[place |-> p, entry |-> e] : p \in {"child", "below"}, e \in DOMAIN dir}

\* The process starts; the mount point may be there already, and the device
\* may be mounted on it already, as a run that ended after its mount and
\* before its unmount leaves it.
Startup ==
    /\ backup_format \in Formats
    /\ root_place \in Places(root_volume, backups_dir)
    /\ dry_run \in BOOLEAN
    /\ mount_dir_exists \in BOOLEAN
    /\ mounts \in (IF mount_dir_exists THEN {0, 1} ELSE {0})
    /\ pc = "env"
    /\ exit_status = Running
    /\ backups = <<>>
    /\ remove_count = 0
    /\ remove = <<>>
    /\ status = "none"
    /\ log = <<>>
    /\ events = <<>>
    /\ removing = <<>>
    /\ start = [root |-> root_volume, dir |-> backups_dir,
                mount_point |-> mount_dir_exists, mounts |-> mounts]

Init ==
    /\ keep_count \in {0, MaxKeepCount}
    /\ keep_during \in {0, MaxKeepDuration}
    /\ root_volume \in Roots(RunTimes)
    /\ backups_dir \in Dirs(MaxRunBackups, RunTimes)
    /\ Startup

\* The worked example of the retention rule, taken up where the evaluation
\* starts: keep_count = 1, keep_duration = 2 days, the device is mounted, no
\* root volume was found, the format renders entry names, and the backups
\* directory holds entries last modified 1, 5, 10 or 12 days after the epoch.
ExampleTimes == {1, 5, 10, 12}

InitExample ==
    /\ keep_count = 1
    /\ keep_during = 2
    /\ backup_format \in {f \in Formats : f.kind = "name"}
    /\ dry_run \in BOOLEAN
    /\ root_place = [place |-> "outside", entry |-> Outside]
    /\ root_volume = {}
    /\ backups_dir \in Dirs(MaxExampleBackups, ExampleTimes)
    /\ mount_dir_exists = TRUE
    /\ mounts = 1
    /\ pc = "list"
    /\ exit_status = Running
    /\ backups = <<>>
    /\ remove_count = 0
    /\ remove = <<>>
    /\ status = "none"
    /\ log = <<"debug", "debug">>
    /\ events = <<<<"create_dir">>, <<"mount", "ok">>, <<"metadata", "not_found">>>>
    /\ removing = <<>>
    /\ start = [root |-> root_volume, dir |-> backups_dir, mount_point |-> FALSE,
                mounts |-> 0]

\* The five-entry scenario: keep_count = 2, keep_duration = 0 and five
\* entries with distinct timeline positions, named in the order of their
\* last-modified times (read_dir yields them in any order all the same).
\* The entries were last modified after the epoch, so that each has a
\* position above keep_duration = 0, the root volume with the oldest of them
\* or after them all, and the run starts with no mount point.
FiveTimes == 1..MaxFiveTime
FiveRootTimes == {1, MaxFiveTime + 1}

InitFive ==
    /\ keep_count = 2
    /\ keep_during = 0
    /\ root_volume \in Roots(FiveRootTimes)
    /\ backups_dir \in {d \in [1..5 -> FiveTimes] :
                           \A i, j \in 1..5 : i < j => d[i] < d[j] /\ Age(d[i]) < Age(d[j])}
    /\ mount_dir_exists = FALSE
    /\ mounts = 0
    /\ Startup

\* The evaluation and the pruning of any directory under any policy, in runs
\* started at different wall-clock moments and taken up where the evaluation
\* starts: the device is mounted, no root volume was found, and `start`
\* records the moment of the start next to the directory.
InitEvaluation ==
    /\ keep_count \in 0..MaxKeepCount
    /\ keep_during \in 0..MaxKeepDuration
    /\ backup_format \in Formats
    /\ dry_run \in BOOLEAN
    /\ root_place = [place |-> "outside", entry |-> Outside]
    /\ root_volume = {}
    /\ backups_dir \in Dirs(MaxBackups, Times)
    /\ mount_dir_exists = TRUE
    /\ mounts = 1
    /\ pc = "list"
    /\ exit_status = Running
    /\ backups = <<>>
    /\ remove_count = 0
    /\ remove = <<>>
    /\ status = "none"
    /\ log = <<"debug", "debug">>
    /\ events = <<<<"create_dir">>, <<"mount", "ok">>, <<"metadata", "not_found">>>>
    /\ removing = <<>>
    /\ \E now \in Nows :
          start = [root |-> root_volume, dir |-> backups_dir, mount_point |-> FALSE,
                   mounts |-> 0, now |-> now]

\* ------------------------------------------------------------- the run
\* The env! reads of main.rs:73-82: a variable that is missing (release
\* build), not unicode or not parsable ends the run with one error line and
\* exit(EXIT_ENV); otherwise the configuration is the one of the state.
Env ==
    /\ pc = "env"
    /\ \/ /\ pc' = "create_dir"
          /\ UNCHANGED <<log, exit_status>>
       \/ /\ log' = Append(log, "error")
          /\ exit_status' = EXIT_ENV
          /\ pc' = "done"
    /\ UNCHANGED <<config, mount_dir_exists, mounts, root_volume, backups_dir,
                   backups, remove_count, remove, status, events, removing, start>>

\* A create_dir that logs an existing directory at debug level.
CreateMountPointQuiet ==
    /\ pc = "create_dir"
    /\ events' = Append(events, <<"create_dir">>)
    /\ \/ /\ ~mount_dir_exists
          /\ mount_dir_exists' = TRUE
          /\ log' = Append(log, "debug")
          /\ pc' = "mount"
          /\ UNCHANGED exit_status
       \/ /\ mount_dir_exists
          /\ log' = Append(log, "debug")
          /\ pc' = "mount"
          /\ UNCHANGED <<mount_dir_exists, exit_status>>
       \/ /\ Bail
          /\ UNCHANGED mount_dir_exists
    /\ UNCHANGED <<config, mounts, root_volume, backups_dir,
                   backups, remove_count, remove, status, removing, start>>

\* fs::create_dir(mount_dir): Ok, Err of kind AlreadyExists, any other Err
\* (which the call may give whether the directory is there or not).
CreateMountPoint ==
    /\ pc = "create_dir"
    /\ events' = Append(events, <<"create_dir">>)
    /\ \/ /\ ~mount_dir_exists
          /\ mount_dir_exists' = TRUE
          /\ log' = Append(log, "debug")
          /\ pc' = "mount"
          /\ UNCHANGED exit_status
       \/ /\ mount_dir_exists
          /\ log' = Append(log, "warn")
          /\ pc' = "mount"
          /\ UNCHANGED <<mount_dir_exists, exit_status>>
       \/ /\ Bail
          /\ UNCHANGED mount_dir_exists
    /\ UNCHANGED <<config, mounts, root_volume, backups_dir,
                   backups, remove_count, remove, status, removing, start>>

\* A failed mount that is logged and not bailed on.
MountFailureIgnored ==
    /\ events' = Append(events, <<"mount", "err">>)
    /\ log' = Append(log, "error")
    /\ pc' = "rotate"
    /\ UNCHANGED <<mounts, exit_status>>
\* if let Err(err) = mount(..) { bail!("mount failed: {err}") }
MountFailure ==
    /\ events' = Append(events, <<"mount", "err">>)
    /\ Bail
    /\ UNCHANGED mounts

\* mount("/dev/mapper/crypted", mount_dir, "btrfs", flags, None): a mount
\* on a mount point that is a mount already stacks on it.
Mount ==
    /\ pc = "mount"
    /\ \/ /\ mounts' = mounts + 1
          /\ events' = Append(events, <<"mount", "ok">>)
          /\ pc' = "rotate"
          /\ UNCHANGED <<log, exit_status>>
       \/ MountFailure
    /\ UNCHANGED <<config, mount_dir_exists, root_volume, backups_dir,
                   backups, remove_count, remove, status, removing, start>>

\* The root volume path lies in the backups directory, in an entry of it or
\* outside it, but is neither the directory nor above it.
Movable == root_place.place \in {"outside", "entry", "child", "below"}

\* The backups directory once the root volume has left its path at moment
\* `now`: without the entry that was the volume, or with the entry whose
\* child the volume was last modified at that moment.
Leave(dir, now) ==
    IF root_place.place = "entry"
    THEN [n \in (DOMAIN dir) \ {root_place.entry} |-> dir[n]]
    ELSE IF root_place.place = "child" /\ root_place.entry \in DOMAIN dir
    THEN [n \in DOMAIN dir |-> IF n = root_place.entry THEN now ELSE dir[n]]
    ELSE dir

\* fs::rename(root_volume, backup) succeeding for a backup path that is an
\* entry of the backups directory: the volume is gone from its path and
\* keeps its last-modified time under its new name, which replaces an
\* entry of that name.  The name of the entry that the volume is or lies
\* in is no such path.
Renamed(r, backup) ==
    /\ Movable
    /\ backup # root_place.entry
    /\ events' = events \o <<<<"metadata", "ok">>, <<"rename", "ok", backup>>>>
    /\ root_volume' = {}
    /\ \E now \in Moments :
          LET left == Leave(backups_dir, now) IN
          backups_dir' = [n \in (DOMAIN left) \cup {backup} |->
                            IF n = backup THEN r.modified ELSE left[n]]
    /\ pc' = "list"
    /\ UNCHANGED <<log, exit_status>>

\* fs::rename succeeding for a backup path that is the root volume's own
\* path: rename(2) of a path onto itself does nothing and succeeds.
RenamedSelf(r, backup) ==
    /\ events' = events \o <<<<"metadata", "ok">>, <<"rename", "ok", backup>>>>
    /\ pc' = "list"
    /\ UNCHANGED <<root_volume, backups_dir, log, exit_status>>

\* fs::rename succeeding for a backup path that is a child of an entry of
\* the backups directory: the volume is gone from its path and is no entry
\* of the directory, and the entry that took it in was last modified at
\* the moment of the rename.
RenamedInto(r, backup) ==
    /\ Movable
    /\ events' = events \o <<<<"metadata", "ok">>, <<"rename", "ok", backup>>>>
    /\ root_volume' = {}
    /\ \E now \in Moments :
          LET left == Leave(backups_dir, now) IN
          /\ backup \in DOMAIN left
          /\ backups_dir' = [n \in DOMAIN left |-> IF n = backup THEN now ELSE left[n]]
    /\ pc' = "list"
    /\ UNCHANGED <<log, exit_status>>

\* fs::rename succeeding for a backup path that is neither an entry of the
\* backups directory nor a child of one: the volume is gone from its path.
RenamedOutside(r, backup) ==
    /\ Movable
    /\ events' = events \o <<<<"metadata", "ok">>, <<"rename", "ok", backup>>>>
    /\ root_volume' = {}
    /\ \E now \in Moments : backups_dir' = Leave(backups_dir, now)
    /\ pc' = "list"
    /\ UNCHANGED <<log, exit_status>>

\* The same rename of a root volume that is the backups directory or holds
\* it: the backups directory is gone from its path with the volume.
RenamedAway(r, backup) ==
    /\ ~Movable
    /\ events' = events \o <<<<"metadata", "ok">>, <<"rename", "ok", backup>>>>
    /\ root_volume' = {}
    /\ backups_dir' = <<>>
    /\ pc' = "list"
    /\ UNCHANGED <<log, exit_status>>

\* fs::rename succeeding for a backup path that is the backups directory,
\* which a rename replaces only when it is empty: the volume becomes the
\* backups directory, whose entries are then the volume's own.
RenamedOnto(r, backup) ==
    /\ root_place.place = "outside"
    /\ DOMAIN backups_dir = {}
    /\ events' = events \o <<<<"metadata", "ok">>, <<"rename", "ok", backup>>>>
    /\ root_volume' = {}
    /\ backups_dir' \in Dirs(MaxChildren, RunTimes)
    /\ pc' = "list"
    /\ UNCHANGED <<log, exit_status>>

\* A rotation that renames although dry_run is set.
RotateDryRunRenames(r, backup) ==
    /\ dry_run
    /\ Renamed(r, backup)
\* if dry_run { log_dry!("mv '{}' '{}'", ..) }
RotateDryRun(r, backup) ==
    /\ dry_run
    /\ events' = Append(events, <<"metadata", "ok">>)
    /\ log' = Append(log, "info")
    /\ pc' = "list"
    /\ UNCHANGED <<root_volume, backups_dir, exit_status>>

\* created.format(&backup_format).to_string() on a format that does not
\* render: the process panics, with no log line and no exit status of its own.
RotatePanic ==
    /\ backup_format.kind = "invalid"
    /\ events' = Append(events, <<"metadata", "ok">>)
    /\ exit_status' = EXIT_PANIC
    /\ pc' = "done"
    /\ UNCHANGED <<root_volume, backups_dir, log>>

\* A rotation that takes NotFound for a fatal error.
RotateNotFoundBails ==
    /\ root_volume = {}
    /\ events' = Append(events, <<"metadata", "not_found">>)
    /\ Bail
    /\ UNCHANGED <<root_volume, backups_dir>>
\* Err(err) if err.kind() == io::ErrorKind::NotFound => log::debug!(..)
RotateNotFound ==
    /\ root_volume = {}
    /\ events' = Append(events, <<"metadata", "not_found">>)
    /\ log' = Append(log, "debug")
    /\ pc' = "list"
    /\ UNCHANGED <<root_volume, backups_dir, exit_status>>

\* Err(err) => bail!("failed to get root volume creation date: {err}"): an
\* error of another kind than NotFound, whether the volume is there or not.
RotateFailure ==
    /\ events' = Append(events, <<"metadata", "err">>)
    /\ Bail
    /\ UNCHANGED <<root_volume, backups_dir>>

\* match root_volume.metadata().and_then(|m| m.created())
Rotate ==
    /\ pc = "rotate"
    /\ \/ \E r \in root_volume :
            \/ RotatePanic
            \/ /\ backup_format.kind # "invalid"
               /\ LET backup == FormatName(backup_format, r.created) IN
                  \/ RotateDryRun(r, backup)
                  \/ /\ ~dry_run
                     /\ backup_format.kind = "name"
                     /\ Renamed(r, backup)
                  \/ /\ ~dry_run
                     /\ \/ backup_format.kind = "self"
                        \/ /\ backup_format.kind = "name"
                           /\ root_place = [place |-> "entry", entry |-> backup]
                        \/ backup_format.kind = "empty" /\ root_place.place = "dir"
                     /\ RenamedSelf(r, backup)
                  \/ /\ ~dry_run
                     /\ backup_format.kind = "nested"
                     /\ RenamedInto(r, backup)
                  \/ /\ ~dry_run
                     /\ backup_format.kind = "parent"
                     /\ RenamedOutside(r, backup)
                  \/ /\ ~dry_run
                     /\ backup_format.kind = "parent"
                     /\ RenamedAway(r, backup)
                  \/ /\ ~dry_run
                     /\ backup_format.kind = "empty"
                     /\ RenamedOnto(r, backup)
                  \/ /\ ~dry_run
                     /\ events' = events \o <<<<"metadata", "ok">>, <<"rename", "err", backup>>>>
                     /\ Bail
                     /\ UNCHANGED <<root_volume, backups_dir>>
       \/ RotateNotFound
       \/ RotateFailure
    /\ UNCHANGED <<config, mount_dir_exists, mounts,
                   backups, remove_count, remove, status, removing, start>>

\* unwrap!(backups_dir.read_dir(), ...) on Err: bail.
ListFailureUnmounts ==
    /\ events' = Append(events, <<"read_dir", "err">>)
    /\ log' = Append(log, "error")
    /\ pc' = "unmount"
    /\ UNCHANGED <<backups, remove_count, remove, exit_status>>

ListFailure ==
    /\ events' = Append(events, <<"read_dir", "err">>)
    /\ Bail
    /\ UNCHANGED <<backups, remove_count, remove>>

\* The loop over the items of the read_dir iterator when every metadata call
\* succeeds, the sort and the construction of the `remove` iterator.  The
\* iterator yields entries and, when a read of the directory stream fails,
\* one Err item after which it ends: `yielded` are the entries it gave
\* before that.  The Err item is logged as a warning and passed over.
Evaluate(yielded, failed) ==
    \E sorted \in SortUnstableByKey(Pushed(backups_dir, yielded)) :
        LET count == SaturatingSub(Len(sorted), keep_count)
            rest == TakeWhile(Take(sorted, count), keep_during)
        IN /\ backups' = sorted
           /\ remove_count' = count
           /\ remove' = rest
           /\ events' = events \o <<<<"read_dir", "ok">>>>
                           \o (IF failed THEN <<<<"readdir_entry", "err">>>> ELSE <<>>)
           /\ log' = log \o (IF failed THEN <<"warn">> ELSE <<>>) \o <<"trace">>
           /\ pc' = LoopOrUnmount(rest)
           /\ UNCHANGED exit_status

\* A metadata failure that is logged as a warning and costs the entry only.
EntryMetadataFailureSkips ==
    \E bad \in DOMAIN backups_dir :
        \E sorted \in SortUnstableByKey(Pushed(backups_dir, (DOMAIN backups_dir) \ {bad})) :
            LET count == SaturatingSub(Len(sorted), keep_count)
                rest == TakeWhile(Take(sorted, count), keep_during)
            IN /\ backups' = sorted
               /\ remove_count' = count
               /\ remove' = rest
               /\ events' = events \o <<<<"read_dir", "ok">>, <<"entry_metadata", "err">>>>
               /\ log' = log \o <<"warn", "trace">>
               /\ pc' = LoopOrUnmount(rest)
               /\ UNCHANGED exit_status

\* unwrap!(entry.metadata().and_then(|m| m.modified()), ...) on Err, for an
\* entry the iterator yielded: bail.  An Err item, if there is one, is the
\* last item of the iterator and is not reached.
EntryMetadataFailure ==
    /\ DOMAIN backups_dir # {}
    /\ events' = events \o <<<<"read_dir", "ok">>, <<"entry_metadata", "err">>>>
    /\ Bail
    /\ UNCHANGED <<backups, remove_count, remove>>

\* The backups directory is at its path: it is not when the root volume
\* path is the directory or lies above it and no volume is there.
DirThere == root_place.place \in {"dir", "above"} => root_volume # {}

\* backups_dir.read_dir(), the loop over its items, the sort and the
\* construction of the `remove` iterator; read_dir of a directory that is
\* not there fails.
List ==
    /\ pc = "list"
    /\ \/ ListFailure
       \/ DirThere /\ EntryMetadataFailure
       \/ DirThere /\ Evaluate(DOMAIN backups_dir, FALSE)
       \/ DirThere /\ \E yielded \in SUBSET (DOMAIN backups_dir) : Evaluate(yielded, TRUE)
    /\ UNCHANGED <<config, mount_dir_exists, mounts, root_volume, backups_dir,
                   status, removing, start>>

\* cmd.status(): success, Ok with an exit code, Ok without one, Err.
Failures == {"code", "no_code", "err"}

\* A failed delete that ends the run.
DeleteFailureBails(backup) ==
    /\ ~dry_run
    /\ events' = Append(events, <<"delete", backup>>)
    /\ status' \in Failures
    /\ log' = log \o <<"trace", "error">>
    /\ exit_status' = EXIT_ERR
    /\ pc' = "done"
    /\ UNCHANGED backups_dir

\* Ok(status) that is no success, or Err(err): a warning, and the loop goes on.
DeleteFailure(backup) ==
    /\ ~dry_run
    /\ events' = Append(events, <<"delete", backup>>)
    /\ status' \in Failures
    /\ log' = log \o <<"trace", "warn">>
    /\ pc' = LoopOrUnmount(Tail(remove))
    /\ UNCHANGED <<backups_dir, exit_status>>

\* The root volume once entry `backup` is removed from the backups
\* directory: gone when it is that entry or lies in it; last modified at
\* the moment of the removal when it is the backups directory itself, from
\* which the entry is taken; as it was otherwise.
Removed(backup) ==
    IF backup = root_place.entry THEN {{}}
    ELSE IF root_place.place = "dir" /\ root_volume # {}
    THEN {{[created |-> r.created, modified |-> now] : r \in root_volume} : now \in Moments}
    ELSE {root_volume}

\* One iteration of `for (_, backup) in remove`.
Delete ==
    /\ pc = "prune"
    /\ remove # <<>>
    /\ LET backup == Head(remove)[2] IN
       \/ /\ dry_run
          /\ log' = log \o <<"trace", "info">>
          /\ pc' = LoopOrUnmount(Tail(remove))
          /\ UNCHANGED <<backups_dir, status, events, exit_status>>
       \/ /\ ~dry_run
          /\ events' = Append(events, <<"delete", backup>>)
          /\ status' = "success"
          /\ backups_dir' = [n \in (DOMAIN backups_dir) \ {backup} |-> backups_dir[n]]
          /\ log' = Append(log, "trace")
          /\ pc' = LoopOrUnmount(Tail(remove))
          /\ UNCHANGED exit_status
       \/ DeleteFailure(backup)
    \* a delete that fails or is only logged leaves the root volume as it was
    /\ root_volume' \in IF Head(remove)[2] \in DOMAIN backups_dir' THEN {root_volume}
                         ELSE Removed(Head(remove)[2])
    /\ removing' = Append(removing, Head(remove)[2])
    /\ remove' = Tail(remove)
    /\ UNCHANGED <<config, mount_dir_exists, mounts,
                   backups, remove_count, start>>

\* unmount(mount_dir, UnmountFlags::empty()): takes the topmost mount off
\* the mount point.
Unmount ==
    /\ pc = "unmount"
    /\ \/ /\ mounts' = mounts - 1
          /\ events' = Append(events, <<"unmount", "ok">>)
          /\ exit_status' = 0
          /\ pc' = "done"
          /\ UNCHANGED log
       \/ /\ events' = Append(events, <<"unmount", "err">>)
          /\ Bail
          /\ UNCHANGED mounts
    /\ UNCHANGED <<config, mount_dir_exists, root_volume, backups_dir,
                   backups, remove_count, remove, status, removing, start>>

Next == Env \/ CreateMountPoint \/ Mount \/ Rotate \/ List \/ Delete \/ Unmount

Spec == Init /\ [][Next]_vars
\* The retention evaluation and what follows it.
NextEvaluate == List \/ Delete \/ Unmount
SpecExample == InitExample /\ [][NextEvaluate]_vars
SpecFive == InitFive /\ [][Next]_vars
SpecEvaluation == InitEvaluation /\ [][NextEvaluate]_vars

\* ------------------------------------------------------------- retention claims
\* The retention evaluation of this run has produced its result.
Evaluated ==
    \/ pc \in {"prune", "unmount"}
    \/ pc = "done" /\ events # <<>> /\ events[Len(events)][1] = "unmount"

\* The result of the evaluation: the entries taken up so far, then the rest.
Selected == removing \o NamesOf(remove)

\* The candidates: the first max(0, total - keep_count) sorted entries.
Candidates ==
    LET total == Len(backups)
        n == IF total - keep_count < 0 THEN 0 ELSE total - keep_count
    IN [i \in 1..n |-> backups[i]]

Ascending(s) == \A i, j \in 1..Len(s) : i < j => s[i][1] <= s[j][1]

\* C1: the entries are listed in ascending order of timeline position, and
\* the result is the longest prefix of the candidates whose positions all
\* exceed keep_during: every selected entry is a candidate above the
\* threshold, in candidate order, and when the result stops short of the
\* candidates the next candidate is at or below the threshold.
C1_MaximalPrefix ==
    Evaluated =>
        /\ Ascending(backups)
        /\ \A i \in 1..Len(backups) :
             backups[i][2] \in DOMAIN backups_dir
                => backups[i][1] = Age(backups_dir[backups[i][2]])
        /\ Len(Selected) <= Len(Candidates)
        /\ \A i \in 1..Len(Selected) :
             /\ Selected[i] = Candidates[i][2]
             /\ Candidates[i][1] > keep_during
        /\ Len(Selected) < Len(Candidates)
             => Candidates[Len(Selected) + 1][1] <= keep_during

\* The scan stopped at the first candidate although a later candidate lies
\* above the threshold.
C1_Witness ==
    /\ Evaluated
    /\ Len(Candidates) >= 2
    /\ Candidates[1][1] <= keep_during
    /\ Candidates[2][1] > keep_during
    /\ Selected = <<>>

\* C3: the keep_count entries last in the sorted order are not in the
\* result, so every selected entry leaves at least keep_count unselected
\* entries that are at least as recent; none of them is taken up by the
\* pruning loop or handed to a delete subprocess.
C3_KeptWindowNeverSelected ==
    Evaluated =>
        /\ \A i \in 1..Len(backups) :
             i > Len(backups) - keep_count =>
                /\ backups[i][2] \notin Range(Selected)
                /\ backups[i][2] \notin Range(removing)
                /\ <<"delete", backups[i][2]>> \notin Range(events)
        /\ \A i \in 1..Len(backups) :
             backups[i][2] \in Range(Selected) =>
                Cardinality({j \in 1..Len(backups) :
                                /\ backups[j][2] \notin Range(Selected)
                                /\ backups[j][1] >= backups[i][1]}) >= keep_count

\* A finished run that pruned something and kept an entry old enough to be
\* pruned only because it is within the keep_count window.
C3_Witness ==
    /\ pc = "done"
    /\ exit_status = 0
    /\ ~dry_run
    /\ keep_count >= 1
    /\ Len(backups) > keep_count
    /\ Selected # <<>>
    /\ backups[Len(backups)][1] > keep_during
    /\ backups[Len(backups)][2] \in DOMAIN backups_dir

\* C4: remove_count is never negative; when at most keep_count entries were
\* enumerated it is 0, the result is empty and no delete is attempted.
C4_NothingWithinKeepCount ==
    /\ remove_count >= 0
    /\ (Evaluated /\ Len(backups) <= keep_count) =>
          /\ remove_count = 0
          /\ Selected = <<>>
          /\ \A i \in 1..Len(events) : events[i][1] # "delete"

\* A normal-mode run that enumerated no more entries than keep_count, one of
\* them older than the threshold, and finished.
C4_Witness ==
    /\ pc = "done"
    /\ exit_status = 0
    /\ ~dry_run
    /\ Len(backups) >= 1
    /\ Len(backups) <= keep_count
    /\ backups[1][1] > keep_during
    /\ Selected = <<>>

\* The candidates of the worked example: three, with positions 10, 1 and 5.
ExampleCase ==
    /\ Evaluated
    /\ Len(Candidates) = 3
    /\ {Candidates[i][1] : i \in 1..3} = {1, 5, 10}

\* C2 as stated: with keep_count = 1, keep_duration = 2 days and three
\* candidates at 10, 1 and 5 days, exactly the entry at 10 days is selected.
C2_OnlyTenSelected ==
    ExampleCase =>
        /\ Len(Selected) = 1
        /\ \E i \in 1..3 : Candidates[i][1] = 10 /\ Candidates[i][2] = Selected[1]

\* C2 as amended: the sort puts the entry at 1 day first, the scan stops at
\* it, and nothing is selected, the entry at 10 days included.
C2_NothingSelected ==
    ExampleCase =>
        /\ Candidates[1][1] = 1
        /\ Selected = <<>>
        /\ removing = <<>>

\* The example has been evaluated and the run has finished.
C2_Witness ==
    /\ ExampleCase
    /\ keep_count = 1
    /\ keep_during = 2
    /\ pc = "done"
    /\ exit_status = 0
    /\ Cardinality(DOMAIN backups_dir) = 4

\* ------------------------------------------------------------- the five-entry scenario
\* The pruning loop has run to its end.
LoopDone ==
    \/ pc = "unmount"
    \/ pc = "done" /\ events # <<>> /\ events[Len(events)][1] = "unmount"

\* read_dir yielded every entry of the backups directory.
AllEnumerated == DOMAIN backups_dir \subseteq {backups[i][2] : i \in 1..Len(backups)}

\* The entries of directory d with fewer than n older (newer) entries.
Oldest(d, n) == {e \in DOMAIN d : Cardinality({f \in DOMAIN d : d[f] < d[e]}) < n}
Newest(d, n) == {e \in DOMAIN d : Cardinality({f \in DOMAIN d : d[f] > d[e]}) < n}

\* The names the root volume was renamed to in this run (at most one).
Renames == {events[i][3] : i \in {j \in 1..Len(events) :
                                     events[j][1] = "rename" /\ events[j][2] = "ok"}}

\* The names under which the root volume was moved into the backups
\* directory in this run: its renames from a path outside the directory
\* under a format that renders entry names.
RotatedIn ==
    IF backup_format.kind = "name" /\ root_place.place = "outside" THEN Renames ELSE {}

\* Every delete subprocess of the run succeeded.
AllDeleted == ~dry_run /\ Range(removing) \cap DOMAIN backups_dir = {}

Enumerated == {backups[i][2] : i \in 1..Len(backups)}

\* The entries passed to the Pruner are n entries of the evaluation, and
\* none of them has a larger position than an entry that was not passed.
OldestPruned(n) ==
    /\ Len(removing) = n
    /\ Cardinality(Range(removing)) = n
    /\ Range(removing) \subseteq Enumerated
    /\ \A i, j \in 1..Len(backups) :
          (backups[i][2] \in Range(removing) /\ backups[j][2] \notin Range(removing))
              => backups[i][1] <= backups[j][1]

Done == pc = "done"

\* The events of kind k, in order.
EventsOf(k) == {i \in 1..Len(events) : events[i][1] = k}

\* The scenario of C6: the mount point was absent, the device was mounted,
\* a root volume existed and the backups directory was empty.
FirstRotation ==
    /\ ~start.mount_point
    /\ <<"mount", "ok">> \in Range(events)
    /\ start.root # {}
    /\ DOMAIN start.dir = {}

\* C6 as stated: in that scenario the run ends with exactly one entry, named
\* by the format applied to the creation time, without the root volume and
\* unmounted, whatever the retention policy.  Stated for normal-mode runs
\* that end with exit status 0 under a format that renders entry names.
C6_OneArchiveWhateverPolicy ==
    (Done /\ exit_status = 0 /\ ~dry_run /\ FirstRotation /\ backup_format.kind = "name") =>
        \A r \in start.root :
            /\ DOMAIN backups_dir = {r.created \div backup_format.span}
            /\ root_volume = {}
            /\ ~mounted

\* C6 as amended: a normal-mode run of that scenario that ends with exit
\* status 0 under a format that renders entry names leaves no root volume
\* and the device unmounted; the backups directory holds exactly the one
\* entry named by the format applied to the creation time when
\* keep_count >= 1 or the entry's position is at most keep_during; with
\* keep_count = 0 and a position above keep_during the directory holds at
\* most that entry: an enumeration that holds it passes it to the Pruner,
\* and the directory is empty once its delete succeeds.
C6_OneArchiveUnlessPruned ==
    (Done /\ exit_status = 0 /\ ~dry_run /\ FirstRotation /\ backup_format.kind = "name") =>
        \A r \in start.root :
            LET name == r.created \div backup_format.span IN
            /\ root_volume = {}
            /\ ~mounted
            /\ DOMAIN backups_dir \subseteq {name}
            /\ (keep_count >= 1 \/ Age(r.modified) <= keep_during)
                  => /\ DOMAIN backups_dir = {name}
                     /\ backups_dir[name] = r.modified
                     /\ removing = <<>>
            /\ (keep_count = 0 /\ Age(r.modified) > keep_during /\ AllEnumerated)
                  => /\ removing = <<name>>
                     /\ (status = "success" <=> DOMAIN backups_dir = {})

\* The scenario ran to its end under a coarse format and kept the archive,
\* whose name differs from the creation time.
C6_Witness ==
    /\ Done
    /\ exit_status = 0
    /\ ~dry_run
    /\ FirstRotation
    /\ keep_count >= 1
    /\ \E r \in start.root : r.created = 1 /\ DOMAIN backups_dir = {0}
    /\ backup_format = [kind |-> "name", span |-> 2]
    /\ ~mounted

\* The names handed to a delete subprocess, in order.
DeleteAttempts ==
    LET idx == EventsOf("delete")
        Nth[n \in 1..Cardinality(idx)] ==
            CHOOSE i \in idx : Cardinality({j \in idx : j <= i}) = n
    IN [n \in 1..Cardinality(idx) |-> events[Nth[n]][2]]

\* C7: in normal mode every entry the loop takes up is handed to a delete
\* subprocess, whatever became of the earlier ones; the loop ends only when
\* every candidate above the threshold has been attempted; a run with a
\* delete attempt in it is still running while the loop runs and ends only
\* by the unmount, so no delete failure ends it.
C7_FailedDeleteDoesNotStopTheRest ==
    ~dry_run =>
        /\ DeleteAttempts = removing
        /\ (pc = "prune") => exit_status = Running
        /\ (Done /\ EventsOf("delete") # {}) => events[Len(events)][1] = "unmount"
        /\ LoopDone =>
              /\ remove = <<>>
              /\ \A i \in 1..Len(Candidates) :
                    (\A j \in 1..i : Candidates[j][1] > keep_during)
                        => Candidates[i][2] \in Range(DeleteAttempts)

\* The loop is over; the delete for the first entry failed, the entry is
\* still there, and the delete for the second entry was made and succeeded.
C7_Witness ==
    /\ LoopDone
    /\ ~dry_run
    /\ Len(DeleteAttempts) >= 2
    /\ DeleteAttempts[1] \in DOMAIN backups_dir
    /\ DeleteAttempts[2] \notin DOMAIN backups_dir
    /\ status = "success"

\* C8: under dry-run the root volume and the backups directory are what they
\* were at startup in every state of the run, and no rename and no delete
\* subprocess is among the events.
C8_DryRunMutatesNothing ==
    dry_run =>
        /\ root_volume = start.root
        /\ backups_dir = start.dir
        /\ EventsOf("rename") = {}
        /\ EventsOf("delete") = {}

\* A dry run that had a root volume to rotate and took entries up for
\* pruning has been unmounted.
C8_Witness ==
    /\ dry_run
    /\ Done
    /\ exit_status = 0
    /\ root_volume # {}
    /\ removing # <<>>
    /\ <<"mount", "ok">> \in Range(events)
    /\ ~mounted

\* C9 as stated: when the root volume is absent the rotation step changes
\* neither the root volume nor the backups directory, makes no rename, does
\* not exit, and hands over to the listing.
C9_AbsentRootIsNoOp ==
    [][(pc = "rotate" /\ root_volume = {}) =>
          /\ pc' = "list"
          /\ exit_status' = Running
          /\ root_volume' = {}
          /\ backups_dir' = backups_dir
          /\ events' = Append(events, <<"metadata", "not_found">>)
          /\ "error" \notin Range(log')]_vars

\* C9 as amended: with the root volume absent the rotation step changes
\* neither the root volume nor the backups directory and makes no rename;
\* when the metadata call reports NotFound it raises no error and hands over
\* to the listing; any other error of the metadata call ends the run with
\* the error exit status.
C9_NotFoundIsNoOp ==
    [][(pc = "rotate" /\ root_volume = {}) =>
          /\ root_volume' = {}
          /\ backups_dir' = backups_dir
          /\ \/ /\ events' = Append(events, <<"metadata", "not_found">>)
                /\ pc' = "list"
                /\ exit_status' = Running
                /\ "error" \notin Range(log')
             \/ /\ events' = Append(events, <<"metadata", "err">>)
                /\ pc' = "done"
                /\ exit_status' = EXIT_ERR
                /\ log' = Append(log, "error")]_vars

\* The rotation found no root volume and the listing is next, over a
\* directory that holds entries.
C9_Witness ==
    /\ pc = "list"
    /\ start.root = {}
    /\ events[Len(events)] = <<"metadata", "not_found">>
    /\ DOMAIN backups_dir # {}
    /\ backups_dir = start.dir

\* C10: every access to the root volume or the backups directory comes
\* after a successful mount; the rotation's metadata and rename calls come
\* before read_dir; every delete comes before the unmount, which is the
\* last event and is attempted only when nothing is left to take up.
C10_FixedOrder ==
    /\ \A i \in 1..Len(events) :
          events[i][1] \in {"metadata", "rename", "read_dir", "readdir_entry",
                            "entry_metadata", "delete", "unmount"}
             => \E j \in 1..(i - 1) : events[j] = <<"mount", "ok">>
    /\ \A i \in EventsOf("read_dir") :
          /\ \E j \in 1..(i - 1) : events[j][1] = "metadata"
          /\ \A j \in EventsOf("metadata") \cup EventsOf("rename") : j < i
    /\ \A i \in EventsOf("delete") :
          /\ \E j \in 1..(i - 1) : events[j] = <<"read_dir", "ok">>
          /\ \A j \in EventsOf("unmount") : i < j
    /\ \A j \in EventsOf("unmount") : j = Len(events) /\ remove = <<>>

\* A finished run that mounted, renamed the root volume, listed, deleted
\* and unmounted.
C10_Witness ==
    /\ Done
    /\ exit_status = 0
    /\ EventsOf("rename") # {}
    /\ Cardinality(EventsOf("delete")) >= 2
    /\ events[Len(events)] = <<"unmount", "ok">>

\* ------------------------------------------------------------- error-handling claims
\* The events that end a run after the mount and before the unmount.
FatalAfterMount ==
    {<<"metadata", "err">>, <<"read_dir", "err">>, <<"entry_metadata", "err">>}
        \cup {e \in Range(events) : e[1] = "rename" /\ e[2] = "err"}

\* The number of warning lines in the log.
WarnCount == Cardinality({i \in 1..Len(log) : log[i] = "warn"})

\* The delete subprocesses that failed: a successful one removes its entry.
FailedDeletes ==
    IF dry_run THEN 0
    ELSE Cardinality({i \in 1..Len(removing) : removing[i] \in DOMAIN backups_dir})

\* A read of the directory stream failed during the listing.
ReadFailed == <<"readdir_entry", "err">> \in Range(events)

\* C11: a run that mounted and met no fatal error and no panic in archiving,
\* listing and pruning is not over before its unmount: while it lists and
\* prunes it is running, it ends only with the unmount as its last event,
\* its exit status is 0 exactly when that unmount succeeded, and the
\* unmount that succeeded took the run's own mount off the mount point.
C11_UnmountAfterNonFatalErrors ==
    (/\ <<"mount", "ok">> \in Range(events)
     /\ Range(events) \cap FatalAfterMount = {}
     /\ exit_status # EXIT_PANIC) =>
        /\ ~Done => exit_status = Running
        /\ Done =>
              /\ events[Len(events)][1] = "unmount"
              /\ Cardinality(EventsOf("unmount")) = 1
              /\ exit_status = 0 <=> events[Len(events)] = <<"unmount", "ok">>
              /\ exit_status = 0 <=> mounts = start.mounts

\* A run whose listing met a failed read and one of whose deletes failed was
\* unmounted and ended with exit status 0.
C11_Witness ==
    /\ Done
    /\ exit_status = 0
    /\ ~dry_run
    /\ ReadFailed
    /\ FailedDeletes >= 1
    /\ events[Len(events)] = <<"unmount", "ok">>

\* The failures of C12 that leave an event: mount, rename, read_dir, unmount.
FatalEvent(e) ==
    \/ e \in {<<"mount", "err">>, <<"read_dir", "err">>, <<"unmount", "err">>}
    \/ e[1] = "rename" /\ e[2] = "err"

\* C12: the exit status of a bail is 2, which is neither 0 nor the status 1
\* of a configuration error.  A failed mount, rename, read_dir or unmount is
\* the last event of its run, which is over with status 2 and an error line
\* as the last line of the log; so is a create_dir that failed for another
\* reason than an existing directory.  After a failed mount there is no
\* metadata, rename, read_dir, delete or unmount and nothing on the device
\* has changed; after a failed rename there is no read_dir and no delete,
\* and after a failed read_dir no delete.
C12_FatalErrorsEndTheRun ==
    /\ EXIT_ERR = 2
    /\ EXIT_ERR \notin {0, EXIT_ENV}
    /\ exit_status = EXIT_ERR => Done
    /\ \A i \in 1..Len(events) :
          FatalEvent(events[i]) =>
              /\ i = Len(events)
              /\ Done
              /\ exit_status = EXIT_ERR
              /\ log[Len(log)] = "error"
              /\ Cardinality({j \in 1..Len(log) : log[j] = "error"}) = 1
    /\ (events = <<<<"create_dir">>>> /\ pc # "mount") =>
          /\ Done
          /\ exit_status = EXIT_ERR
          /\ log = <<"error">>
          /\ mounts = start.mounts
    /\ <<"mount", "err">> \in Range(events) =>
          /\ \A e \in Range(events) : e[1] \in {"create_dir", "mount"}
          /\ mounts = start.mounts
          /\ root_volume = start.root
          /\ backups_dir = start.dir
    /\ (\E e \in Range(events) : e[1] = "rename" /\ e[2] = "err") =>
          /\ EventsOf("read_dir") = {}
          /\ EventsOf("delete") = {}
          /\ root_volume = start.root
          /\ backups_dir = start.dir
    /\ <<"read_dir", "err">> \in Range(events) => EventsOf("delete") = {}

\* The rename of the root volume failed in a normal-mode run whose backups
\* directory held an entry that the policy would have had deleted; the run
\* is over with status 2 and the entry is still there.
C12_Witness ==
    /\ Done
    /\ exit_status = 2
    /\ ~dry_run
    /\ events[Len(events)][1] = "rename"
    /\ events[Len(events)][2] = "err"
    /\ keep_count = 0
    /\ \E e \in DOMAIN backups_dir : Age(backups_dir[e]) > keep_during

\* C13 as stated: an entry whose metadata cannot be read during the listing
\* costs a warning and the entry; the run goes on to evaluate, to prune and
\* to unmount, so it is not over with the failed metadata call as its last
\* event, it has not taken the exit status of a fatal error from it, and
\* its log has no error line for it.
C13_EntryMetadataFailureIsRecoverable ==
    \A i \in EventsOf("entry_metadata") :
        events[i][2] = "err" =>
            /\ ~(Done /\ i = Len(events))
            /\ exit_status # EXIT_ERR \/ events[Len(events)] = <<"unmount", "err">>
            /\ log[Len(log)] # "error" \/ events[Len(events)] = <<"unmount", "err">>

\* C13 as amended: an entry whose metadata cannot be read during the listing
\* ends the run: the failed call is the last event, the run is over with
\* exit status 2 and an error line as the last line of its log, nothing was
\* evaluated, no delete subprocess was run, no unmount was attempted and
\* the device is still mounted.
C13_EntryMetadataFailureIsFatal ==
    \A i \in EventsOf("entry_metadata") :
        events[i][2] = "err" =>
            /\ i = Len(events)
            /\ Done
            /\ exit_status = EXIT_ERR
            /\ log[Len(log)] = "error"
            /\ remove = <<>>
            /\ removing = <<>>
            /\ EventsOf("delete") = {}
            /\ EventsOf("unmount") = {}
            /\ mounts = start.mounts + 1

\* The metadata of an entry could not be read in a normal-mode run whose
\* policy keeps no entry; the run is over with status 2 and the directory
\* still holds an entry above the threshold.
C13_Witness ==
    /\ Done
    /\ exit_status = EXIT_ERR
    /\ ~dry_run
    /\ events[Len(events)] = <<"entry_metadata", "err">>
    /\ keep_count = 0
    /\ mounted
    /\ \E e \in DOMAIN backups_dir : Age(backups_dir[e]) > keep_during

\* The names the evaluation holds, and the entries the backups directory
\* held when it was listed: those still there and those deleted since,
\* which were all listed.
Listed == {backups[i][2] : i \in 1..Len(backups)}
DirAtListing == DOMAIN backups_dir \cup Listed

\* C14: once the listing is through, every entry of the directory is either
\* in the evaluation or is the one entry passed over with the warning of a
\* failed read; the entry passed over is not in the total, from which
\* remove_count is computed, not in the selection, never handed to a delete
\* subprocess and still in the directory; the entries in the evaluation
\* carry their own epoch-based positions in ascending order; and the run is
\* running or has ended by its unmount, with no error line before that.
C14_UnreadableEntryIsSkipped ==
    Evaluated =>
        LET skips == IF ReadFailed THEN 1 ELSE 0
            listed == Listed
            total == Cardinality(DirAtListing)
        IN /\ total = Len(backups) + skips
           /\ Cardinality(listed) = Len(backups)
           /\ remove_count = IF total - skips - keep_count < 0 THEN 0
                             ELSE total - skips - keep_count
           /\ Len(Selected) <= remove_count
           /\ Range(Selected) \subseteq listed
           /\ Range(DeleteAttempts) \subseteq listed
           /\ DirAtListing \ listed \subseteq DOMAIN backups_dir
           /\ Ascending(backups)
           /\ \A i \in 1..Len(backups) :
                 backups[i][2] \in DOMAIN backups_dir
                     => backups[i][1] = Age(backups_dir[backups[i][2]])
           /\ ~Done => exit_status = Running /\ "error" \notin Range(log)
           /\ Done => events[Len(events)][1] = "unmount"

\* The position of name n in the sorted evaluation; 0 when it is not there.
IndexOf(n) ==
    IF n \in Listed THEN CHOOSE i \in 1..Len(backups) : backups[i][2] = n ELSE 0

\* C15: in a run that renamed the root volume into the backups directory and
\* went on to evaluate, the new entry is in the evaluation with the
\* position of the root volume's last-modified time, the total counts it
\* next to the entries the directory had at startup, remove_count is taken
\* from that total, and the new entry is selected exactly when it is among
\* the first remove_count entries and it and all entries sorted before it
\* are above the threshold.
C15_RotatedEntryIsEvaluated ==
    Evaluated =>
        \A b \in RotatedIn : \A r \in start.root :
            LET total == Cardinality(DOMAIN start.dir \cup {b})
                i == IndexOf(b)
            IN /\ b \in DirAtListing
               /\ b \in Listed
               /\ backups[i] = <<Age(r.modified), b>>
               /\ Len(backups) = total
               /\ remove_count = IF total - keep_count < 0 THEN 0 ELSE total - keep_count
               /\ b \in Range(Selected) <=>
                     /\ i <= remove_count
                     /\ \A j \in 1..i : backups[j][1] > keep_during

\* ------------------------------------------------------------- the clock
\* The last-modified time of listed entry n measured from the epoch, written
\* out: a time before the epoch counts as the epoch.
EpochPosition(n) == IF start.dir[n] < 0 THEN 0 ELSE start.dir[n]

\* The number of entries the policy selects among the listed ones: all but
\* keep_count of them when the smallest position is above the threshold.
ExpectedCount ==
    LET n == IF Len(backups) - keep_count < 0 THEN 0 ELSE Len(backups) - keep_count
    IN IF n > 0 /\ \A e \in Listed : EpochPosition(e) > keep_during THEN n ELSE 0

\* C16: for every moment at which the run starts, the value the evaluation
\* holds for an entry is its last-modified time measured from the epoch, the
\* number of selected entries is a function of those values, keep_count and
\* keep_during alone, and the selected entries are the ones with the
\* smallest such values (entries of equal value in the order the sort left
\* them); the moment of the start appears nowhere in it.
C16_SelectionIgnoresTheClock ==
    Evaluated =>
        /\ \A i \in 1..Len(backups) : backups[i][1] = EpochPosition(backups[i][2])
        /\ Len(Selected) = ExpectedCount
        /\ \A s \in Range(Selected) : \A e \in Listed \ Range(Selected) :
              EpochPosition(s) <= EpochPosition(e)

\* An entry last modified at the very moment the run started, for which no
\* time has elapsed, is selected under a threshold of 0; so is one in a run
\* started a unit later.
C16_Witness ==
    /\ Evaluated
    /\ keep_during = 0
    /\ \E s \in Range(Selected) :
          /\ start.dir[s] = MaxTime
          /\ start.now - start.dir[s] <= keep_during

\* ------------------------------------------------------------- log severities
\* C17 as stated: when create_dir has found the mount point in place and
\* the run is at the mount, its log holds no warning and no error; after the
\* metadata call found no root volume the run is at the listing and the log
\* line of that step is neither a warning nor an error.
C17_BenignNonErrorsBelowWarning ==
    /\ (start.mount_point /\ pc = "mount") =>
          /\ events = <<<<"create_dir">>>>
          /\ Range(log) \cap {"warn", "error"} = {}
    /\ (events # <<>> /\ events[Len(events)] = <<"metadata", "not_found">>) =>
          /\ pc = "list"
          /\ log[Len(log)] \notin {"warn", "error"}

\* C17 as amended: an absent root volume is logged at debug level and the
\* run is at the listing, with no error line in its log; a mount point
\* that create_dir found in place is logged with one warning line, which is
\* the whole log when the run is at the mount, still running.
C17_ExistingMountPointWarns ==
    /\ (start.mount_point /\ pc = "mount") =>
          /\ events = <<<<"create_dir">>>>
          /\ exit_status = Running
          /\ log = <<"warn">>
    /\ (events # <<>> /\ events[Len(events)] = <<"metadata", "not_found">>) =>
          /\ pc = "list"
          /\ exit_status = Running
          /\ log[Len(log)] = "debug"
          /\ "error" \notin Range(log)
          /\ WarnCount = IF start.mount_point THEN 1 ELSE 0

\* A run that found its mount point in place and no root volume is at the
\* listing with one warning and one debug line in its log.
C17_Witness ==
    /\ pc = "list"
    /\ start.mount_point
    /\ events[Len(events)] = <<"metadata", "not_found">>
    /\ log = <<"warn", "debug">>
    /\ exit_status = Running

\* ------------------------------------------------------------- shape of the selection
\* C18: the selection is empty or holds every candidate, never a proper
\* non-empty prefix: it holds every candidate exactly when there is one and
\* the smallest position, which the sort puts first, is above the
\* threshold, and it is empty otherwise; an entry last modified before the
\* epoch has position 0, which is above no threshold.
C18_AllOrNothing ==
    Evaluated =>
        /\ Selected = <<>> \/ Selected = NamesOf(Candidates)
        /\ Len(Selected) \in {0, SaturatingSub(Len(backups), keep_count)}
        /\ \A i \in 1..Len(backups) : backups[1][1] <= backups[i][1]
        /\ (Candidates # <<>> /\ backups[1][1] > keep_during)
              => Selected = NamesOf(Candidates)
        /\ (Candidates # <<>> /\ backups[1][1] <= keep_during) => Selected = <<>>
        /\ \A i \in 1..Len(backups) :
              (backups[i][2] \in DOMAIN backups_dir /\ backups_dir[backups[i][2]] <= 0)
                  => backups[i][1] = 0 /\ Selected = <<>>

\* Both entries of a directory are candidates; one was last modified before
\* the epoch, the other is above the threshold, and nothing is selected.
C18_Witness ==
    /\ Evaluated
    /\ Len(Candidates) = 2
    /\ backups_dir[backups[1][2]] = -1
    /\ backups[1][1] = 0
    /\ backups[2][1] > keep_during
    /\ Selected = <<>>
    /\ EventsOf("delete") = {}

\* ------------------------------------------------------------- fatal errors after the mount
\* C19: a run in which the root volume's metadata call, the rename, read_dir
\* or an entry's metadata call failed is over with that failure as its last
\* event and with exit status 2; it holds no unmount and the device is
\* still mounted.  An unmount is attempted only when the listing succeeded
\* and the pruning loop has nothing left to take up, and only once; a run
\* that is over with its own mount in place met one of these failures, a
\* failed unmount, or a panic while it rendered the backup name.
C19_FatalAfterMountLeavesMounted ==
    /\ Range(events) \cap FatalAfterMount # {} =>
          /\ events[Len(events)] \in FatalAfterMount
          /\ \A i \in 1..(Len(events) - 1) : events[i] \notin FatalAfterMount
          /\ <<"mount", "ok">> \in Range(events)
          /\ Done
          /\ exit_status = 2
          /\ EventsOf("unmount") = {}
          /\ mounts = start.mounts + 1
    /\ \A i \in EventsOf("unmount") :
          /\ i = Len(events)
          /\ <<"read_dir", "ok">> \in Range(events)
          /\ remove = <<>>
    /\ Cardinality(EventsOf("unmount")) <= 1
    /\ (mounts > start.mounts /\ Done) =>
          \/ Range(events) \cap FatalAfterMount # {}
          \/ events[Len(events)] = <<"unmount", "err">>
          \/ exit_status = EXIT_PANIC

\* read_dir failed in a run that had renamed the root volume; the run is
\* over with status 2 and the device is mounted.
C19_Witness ==
    /\ Done
    /\ exit_status = 2
    /\ mounted
    /\ RotatedIn # {}
    /\ events[Len(events)] = <<"read_dir", "err">>
    /\ EventsOf("unmount") = {}

\* ------------------------------------------------------------- delete attempts
\* C20: in normal mode the n-th delete subprocess is for the n-th entry of
\* the sorted evaluation, which is among the first max(0, total -
\* keep_count) and above the threshold, as are all before it; so the
\* attempts go by ascending position, no entry is attempted twice, whether
\* its delete failed or not, and no entry outside the selection is
\* attempted.  When the loop is over every selected entry has had its
\* attempt.
C20_OneDeleteAttemptEach ==
    ~dry_run =>
        LET attempts == DeleteAttempts
            selected == Selected
        IN /\ \A n \in 1..Len(attempts) :
                 /\ Evaluated
                 /\ n <= Len(backups)
                 /\ n <= Len(selected)
                 /\ attempts[n] = backups[n][2]
                 /\ n <= SaturatingSub(Len(backups), keep_count)
                 /\ backups[n][1] > keep_during
                 /\ attempts[n] = selected[n]
           /\ \A m, n \in 1..Len(attempts) :
                 /\ m < n => backups[m][1] <= backups[n][1]
                 /\ m # n => attempts[m] # attempts[n]
           /\ LoopDone => Len(attempts) = Len(selected)

\* The loop of a normal-mode run is over: two entries at different
\* positions were selected, the delete of the older one came first, failed
\* and left its entry in place, the second attempt went to the more recent
\* one, and there are as many attempts as selected entries.
C20_Witness ==
    /\ LoopDone
    /\ ~dry_run
    /\ Len(Selected) = 2
    /\ DeleteAttempts = Selected
    /\ DeleteAttempts = <<backups[1][2], backups[2][2]>>
    /\ keep_during < backups[1][1]
    /\ backups[1][1] < backups[2][1]
    /\ Selected[1] \in DOMAIN backups_dir
    /\ Selected[1] # Selected[2]
    /\ status \in Failures

====
